---- MODULE Spec2Model ----
(***************************************************************************)
(* Model of build_book.py: the chapter parser (parse_chapter), the         *)
(* typographic normaliser (typographic_substitutions) and the document     *)
(* assembler (build_html).  Texts are sequences of one-character strings;  *)
(* Python indices are kept 0-based (element k of a list is seq[k + 1]).    *)
(***************************************************************************)
EXTENDS Integers, Sequences, FiniteSets, TLC

VARIABLES
    pc,              \* position in the running function
    text,            \* parse_chapter: f.read()
    lines,           \* parse_chapter: lines
    i,               \* parse_chapter: i
    elements,        \* parse_chapter: elements
    para_lines,      \* parse_chapter: para_lines
    body_start,      \* parse_chapter: value of i when the body walk begins
    n_text,          \* typographic_substitutions: the argument
    n_once,          \* typographic_substitutions(n_text)
    n_twice,         \* typographic_substitutions(n_once)
    chapters,        \* build_html: chapters
    title,           \* build_html: title
    author,          \* build_html: author
    parts,           \* build_html: parts
    ci,              \* build_html: index of the chapter of the outer loop
    ei,              \* build_html: index of the element of the inner loop
    need_no_indent   \* build_html: need_no_indent

parseVars == <<pc, text, lines, i, elements, para_lines, body_start>>
normVars == <<n_text, n_once, n_twice>>
buildVars == <<chapters, title, author, parts, ci, ei, need_no_indent>>
vars == <<parseVars, normVars, buildVars>>

(***************************************************************************)
(* Bounds of the model.                                                    *)
(***************************************************************************)
MaxLines == 4
MaxTextLen == 5
MaxChapters == 2
MaxTotalElems == 3

(***************************************************************************)
(* Characters and strings.                                                 *)
(***************************************************************************)
NL == "\n"
EM == "\\u2014"
\* Python's None: a value different from every text (no text holds this symbol)
None == <<"None">>

\* the whitespace of \s and of str.strip() that the texts of the model hold
Whitespace == {" ", "\t"}
Digits == {"0", "1", "2", "3", "4", "5", "6", "7", "8", "9"}
CHAPTER == <<"C", "H", "A", "P", "T", "E", "R">>
SCENE_MARK == <<"*", " ", "*", " ", "*">>

DropFirst(s, n) == SubSeq(s, n + 1, Len(s))

RECURSIVE LStrip(_)
LStrip(s) ==
    IF s # <<>> /\ Head(s) \in Whitespace THEN LStrip(Tail(s)) ELSE s

RECURSIVE RStrip(_)
RStrip(s) ==
    IF s # <<>> /\ s[Len(s)] \in Whitespace
    THEN RStrip(SubSeq(s, 1, Len(s) - 1))
    ELSE s

\* str.strip()
Strip(s) == RStrip(LStrip(s))

\* str.split(sep) for a one-character separator: always at least one field
RECURSIVE SplitAcc(_, _, _)
SplitAcc(s, sep, cur) ==
    IF s = <<>> THEN <<cur>>
    ELSE IF Head(s) = sep THEN <<cur>> \o SplitAcc(Tail(s), sep, <<>>)
    ELSE SplitAcc(Tail(s), sep, Append(cur, Head(s)))

Split(s, sep) == SplitAcc(s, sep, <<>>)

\* sep.join(parts)
RECURSIVE Join(_, _)
Join(strs, sep) ==
    IF strs = <<>> THEN <<>>
    ELSE IF Len(strs) = 1 THEN strs[1]
    ELSE strs[1] \o sep \o Join(Tail(strs), sep)

\* length of the longest prefix of s made of characters of set cs (greedy x+)
RECURSIVE Span(_, _)
Span(s, cs) ==
    IF s # <<>> /\ Head(s) \in cs THEN 1 + Span(Tail(s), cs) ELSE 0

\* re.search(r'^CHAPTER\s+\d+', line) without the anchor: a match at any offset
ReSearchHeading(line) ==
    \E k \in 0..Len(line) :
        LET s == DropFirst(line, k)
            rest == DropFirst(s, Len(CHAPTER))
            ws == Span(rest, Whitespace) IN
        /\ Len(s) >= Len(CHAPTER)
        /\ SubSeq(s, 1, Len(CHAPTER)) = CHAPTER
        /\ ws >= 1
        /\ Span(DropFirst(rest, ws), Digits) >= 1

\* re.match(r'^CHAPTER\s+\d+', line): the pattern matched at offset 0 only
ReMatchHeading(line) ==
    LET rest == DropFirst(line, Len(CHAPTER))
        ws == Span(rest, Whitespace) IN
    /\ Len(line) >= Len(CHAPTER)
    /\ SubSeq(line, 1, Len(CHAPTER)) = CHAPTER
    /\ ws >= 1
    /\ Span(DropFirst(rest, ws), Digits) >= 1

(***************************************************************************)
(* Elements: the (kind, text) pairs of the source.                         *)
(***************************************************************************)
Elem(kind, t) == [kind |-> kind, text |-> t]

\* lines[k] with Python's 0-based index
Line(k) == lines[k + 1]

(***************************************************************************)
(* The inputs: chapter texts of at most MaxLines lines drawn from a pool   *)
(* that holds blank lines, heading-shaped lines, scene-break markers and   *)
(* ordinary text, with and without surrounding whitespace.                 *)
(***************************************************************************)
LinePool ==
    { <<>>,
      <<" ">>,
      CHAPTER \o <<" ", "1">>,
      CHAPTER \o <<"\t", " ", "1", "2", "a">>,
      CHAPTER \o <<"1">>,
      <<" ">> \o CHAPTER \o <<" ", "1">>,
      SCENE_MARK,
      <<" ">> \o SCENE_MARK \o <<"\t">>,
      <<" ", "b", " ">> }


(***************************************************************************)
(* parse_chapter                                                           *)
(***************************************************************************)
\* the variables of the functions that are not running
ParseIdle ==
    /\ text = <<>>
    /\ lines = <<>>
    /\ i = 0
    /\ elements = <<>>
    /\ para_lines = <<>>
    /\ body_start = 0

NormIdle ==
    /\ n_text = <<>>
    /\ n_once = <<>>
    /\ n_twice = <<>>

BuildIdle ==
    /\ chapters = <<>>
    /\ title = None
    /\ author = None
    /\ parts = <<>>
    /\ ci = 0
    /\ ei = 0
    /\ need_no_indent = FALSE

InitParse ==
    /\ pc = "read"
    \* every text is the newline-join of one or more newline-free lines
    /\ \E k \in 1..MaxLines : \E ls \in [1..k -> LinePool] : text = Join(ls, <<NL>>)
    /\ lines = <<>>
    /\ i = 0
    /\ elements = <<>>
    /\ para_lines = <<>>
    /\ body_start = 0
    /\ NormIdle
    /\ BuildIdle

\* lines 19-23: read, split, empty element list, i = 0
ReadLines ==
    /\ pc = "read"
    /\ lines' = Split(text, NL)
    /\ elements' = <<>>
    /\ i' = 0
    /\ pc' = "heading"
    /\ UNCHANGED <<text, para_lines, body_start>>
    /\ UNCHANGED <<normVars, buildVars>>

\* lines 25-27: the first line matches the heading pattern
HeadingCond == i < Len(lines) /\ ReMatchHeading(Line(i))

HeadingMatch ==
    /\ pc = "heading"
    /\ HeadingCond
    /\ elements' = Append(elements, Elem("heading", Line(i)))
    /\ i' = i + 1
    /\ pc' = "skip_blank"
    /\ UNCHANGED <<text, lines, para_lines, body_start>>
    /\ UNCHANGED <<normVars, buildVars>>

\* lines 28-32 dedented out of the if: the subtitle step runs without a heading
HeadingNoMatchFallsThrough ==
    /\ pc = "heading"
    /\ ~HeadingCond
    /\ pc' = "skip_blank"
    /\ UNCHANGED <<text, lines, i, elements, para_lines, body_start>>
    /\ UNCHANGED <<normVars, buildVars>>

\* line 25 false, then line 34
HeadingNoMatch ==
    /\ pc = "heading"
    /\ ~HeadingCond
    /\ para_lines' = <<>>
    /\ body_start' = i
    /\ pc' = "body"
    /\ UNCHANGED <<text, lines, i, elements>>
    /\ UNCHANGED <<normVars, buildVars>>

\* lines 28-29: one iteration of the blank-line skip
SkipBlank ==
    /\ pc = "skip_blank"
    /\ i < Len(lines) /\ Strip(Line(i)) = <<>>
    /\ i' = i + 1
    /\ UNCHANGED <<pc, text, lines, elements, para_lines, body_start>>
    /\ UNCHANGED <<normVars, buildVars>>

\* line 32 forgotten: the subtitle line is walked again as body text
EmitSubtitleNoAdvance ==
    /\ pc = "skip_blank"
    /\ ~(i < Len(lines) /\ Strip(Line(i)) = <<>>)
    /\ i < Len(lines)
    /\ elements' = Append(elements, Elem("subtitle", Line(i)))
    /\ para_lines' = <<>>
    /\ body_start' = i
    /\ pc' = "body"
    /\ UNCHANGED <<text, lines, i>>
    /\ UNCHANGED <<normVars, buildVars>>

\* line 28 false, lines 30-32 with a line left, then line 34
EmitSubtitle ==
    /\ pc = "skip_blank"
    /\ ~(i < Len(lines) /\ Strip(Line(i)) = <<>>)
    /\ i < Len(lines)
    /\ elements' = Append(elements, Elem("subtitle", Line(i)))
    /\ i' = i + 1
    /\ para_lines' = <<>>
    /\ body_start' = i + 1
    /\ pc' = "body"
    /\ UNCHANGED <<text, lines>>
    /\ UNCHANGED <<normVars, buildVars>>

\* line 28 false, line 30 false, then line 34
NoSubtitle ==
    /\ pc = "skip_blank"
    /\ ~(i < Len(lines) /\ Strip(Line(i)) = <<>>)
    /\ ~(i < Len(lines))
    /\ para_lines' = <<>>
    /\ body_start' = i
    /\ pc' = "body"
    /\ UNCHANGED <<text, lines, i, elements>>
    /\ UNCHANGED <<normVars, buildVars>>

\* flush_para joining with the empty string
FlushParaJoinNoSpace(els, pl) ==
    IF pl # <<>>
    THEN [elements |-> Append(els, Elem("paragraph", Join(pl, <<>>))),
          para_lines |-> <<>>]
    ELSE [elements |-> els, para_lines |-> pl]

\* flush_para without the emptiness test of line 37
FlushParaAlways(els, pl) ==
    [elements |-> Append(els, Elem("paragraph", Join(pl, <<" ">>))),
     para_lines |-> <<>>]

\* lines 36-40: flush_para, as the pair (elements, para_lines) it leaves
flush_para(els, pl) ==
    IF pl # <<>>
    THEN [elements |-> Append(els, Elem("paragraph", Join(pl, <<" ">>))),
          para_lines |-> <<>>]
    ELSE [elements |-> els, para_lines |-> pl]

\* line 45 forgotten: the scene break is emitted before the pending paragraph
SceneBreakLineNoFlush ==
    /\ pc = "body"
    /\ i < Len(lines)
    /\ Strip(Line(i)) = SCENE_MARK
    /\ elements' = Append(elements, Elem("scene_break", None))
    /\ i' = i + 1
    /\ UNCHANGED <<pc, text, lines, para_lines, body_start>>
    /\ UNCHANGED <<normVars, buildVars>>

\* lines 42-46, 51: a scene-break marker line
SceneBreakLine ==
    /\ pc = "body"
    /\ i < Len(lines)
    /\ Strip(Line(i)) = SCENE_MARK
    /\ LET f == flush_para(elements, para_lines) IN
        /\ elements' = Append(f.elements, Elem("scene_break", None))
        /\ para_lines' = f.para_lines
    /\ i' = i + 1
    /\ UNCHANGED <<pc, text, lines, body_start>>
    /\ UNCHANGED <<normVars, buildVars>>

\* lines 42-43, 47-48, 51: a blank line
BlankLine ==
    /\ pc = "body"
    /\ i < Len(lines)
    /\ Strip(Line(i)) # SCENE_MARK
    /\ Strip(Line(i)) = <<>>
    /\ LET f == flush_para(elements, para_lines) IN
        /\ elements' = f.elements
        /\ para_lines' = f.para_lines
    /\ i' = i + 1
    /\ UNCHANGED <<pc, text, lines, body_start>>
    /\ UNCHANGED <<normVars, buildVars>>

\* lines 42-43, 49-51: any other line
TextLine ==
    /\ pc = "body"
    /\ i < Len(lines)
    /\ Strip(Line(i)) # SCENE_MARK
    /\ Strip(Line(i)) # <<>>
    /\ para_lines' = Append(para_lines, Strip(Line(i)))
    /\ i' = i + 1
    /\ UNCHANGED <<pc, text, lines, elements, body_start>>
    /\ UNCHANGED <<normVars, buildVars>>

\* line 42 false, lines 53-54
FinalFlush ==
    /\ pc = "body"
    /\ ~(i < Len(lines))
    /\ LET f == flush_para(elements, para_lines) IN
        /\ elements' = f.elements
        /\ para_lines' = f.para_lines
    /\ pc' = "done"
    /\ UNCHANGED <<text, lines, i, body_start>>
    /\ UNCHANGED <<normVars, buildVars>>

NextParse ==
    \/ ReadLines
    \/ HeadingMatch
    \/ HeadingNoMatch
    \/ SkipBlank
    \/ EmitSubtitle
    \/ NoSubtitle
    \/ SceneBreakLine
    \/ BlankLine
    \/ TextLine
    \/ FinalFlush

SpecParse == InitParse /\ [][NextParse]_vars

(***************************************************************************)
(* typographic_substitutions                                               *)
(***************************************************************************)
\* str.replace(old, new): every non-overlapping occurrence, left to right
RECURSIVE Replace(_, _, _)
Replace(s, old, new) ==
    IF Len(s) < Len(old) THEN s
    ELSE IF SubSeq(s, 1, Len(old)) = old
         THEN new \o Replace(DropFirst(s, Len(old)), old, new)
         ELSE <<Head(s)>> \o Replace(Tail(s), old, new)

\* str.replace(old, new, 1): the first occurrence only
RECURSIVE ReplaceFirst(_, _, _)
ReplaceFirst(s, old, new) ==
    IF Len(s) < Len(old) THEN s
    ELSE IF SubSeq(s, 1, Len(old)) = old
         THEN new \o DropFirst(s, Len(old))
         ELSE <<Head(s)>> \o ReplaceFirst(Tail(s), old, new)

\* the substitution applied to the first occurrence only
TypographicFirstOnly(t) == ReplaceFirst(t, <<"-", "-">>, <<EM>>)

\* lines 56-58
typographic_substitutions(t) == Replace(t, <<"-", "-">>, <<EM>>)

WellKnown == <<"w", "e", "l", "l", "-", "-", "k", "n", "o", "w", "n">>

\* the characters of the arguments: the hyphen, the em-dash and a letter
NormChars == {"-", "a", EM}

InitNorm ==
    /\ pc = "norm"
    \* every text of at most MaxTextLen characters, and the text "well--known"
    /\ \/ \E k \in 0..MaxTextLen : n_text \in [1..k -> NormChars]
       \/ n_text = WellKnown
    /\ n_once = <<>>
    /\ n_twice = <<>>
    /\ ParseIdle
    /\ BuildIdle

\* a first call on the argument
NormOnce ==
    /\ pc = "norm"
    /\ n_once' = typographic_substitutions(n_text)
    /\ pc' = "norm_once"
    /\ UNCHANGED <<n_text, n_twice>>
    /\ UNCHANGED <<text, lines, i, elements, para_lines, body_start, buildVars>>

\* a second call on the result of the first
NormTwice ==
    /\ pc = "norm_once"
    /\ n_twice' = typographic_substitutions(n_once)
    /\ pc' = "norm_twice"
    /\ UNCHANGED <<n_text, n_once>>
    /\ UNCHANGED <<text, lines, i, elements, para_lines, body_start, buildVars>>

NextNorm ==
    \/ NormOnce
    \/ NormTwice

SpecNorm == InitNorm /\ [][NextNorm]_vars

(***************************************************************************)
(* build_html                                                              *)
(***************************************************************************)
\* html.escape(s) with quote=True, one character
EscapeChar(c) ==
    CASE c = "&" -> <<"&", "a", "m", "p", ";">>
      [] c = "<" -> <<"&", "l", "t", ";">>
      [] c = ">" -> <<"&", "g", "t", ";">>
      [] c = "\"" -> <<"&", "q", "u", "o", "t", ";">>
      [] c = "'" -> <<"&", "#", "x", "2", "7", ";">>
      [] OTHER -> <<c>>

RECURSIVE Escape(_)
Escape(s) == IF s = <<>> THEN <<>> ELSE EscapeChar(Head(s)) \o Escape(Tail(s))

\* one string appended to parts: the fixed markup named by tag around text t
Part(tag, t) == [tag |-> tag, text |-> t]
Fixed(tag) == Part(tag, <<>>)

\* typographic_substitutions(html.escape(text)) of lines 81, 84, 90
Rendered(t) == typographic_substitutions(Escape(t))

\* Python truthiness of an optional string
Truthy(x) == x # None /\ x # <<>>

\* the chapter and the element the loops of lines 76 and 79 are at
Chapter(c) == chapters[c + 1]
CurElem == Chapter(ci)[ei + 1]

ElemPool ==
    { Elem("heading", CHAPTER \o <<" ", "1">>),
      Elem("subtitle", <<"<", "s", ">">>),
      Elem("scene_break", None),
      Elem("paragraph", <<"a", "-", "-", "-", "&">>) }

RECURSIVE Sum(_)
Sum(ns) == IF ns = <<>> THEN 0 ELSE Head(ns) + Sum(Tail(ns))

\* the list of chapters of lengths lens whose elements, read through, are flat
Cut(flat, lens) ==
    [c \in 1..Len(lens) |->
        SubSeq(flat, Sum(SubSeq(lens, 1, c - 1)) + 1, Sum(SubSeq(lens, 1, c)))]

Titles == {None, <<>>, <<"T", "<">>}
Authors == {None, <<"A", "-", "-">>}

InitBuild ==
    /\ pc = "start"
    \* at most MaxChapters chapters holding at most MaxTotalElems elements together
    /\ \E n \in 0..MaxChapters :
        \E lens \in [1..n -> 0..MaxTotalElems] :
            /\ Sum(lens) <= MaxTotalElems
            /\ \E flat \in [1..Sum(lens) -> ElemPool] : chapters = Cut(flat, lens)
    /\ title \in Titles
    /\ author \in Authors
    /\ parts = <<>>
    /\ ci = 0
    /\ ei = 0
    /\ need_no_indent = FALSE
    /\ ParseIdle
    /\ NormIdle

\* lines 61-66: the preamble around the style block
Preamble ==
    /\ pc = "start"
    /\ parts' = <<Fixed("preamble"), Fixed("css"), Fixed("head_close")>>
    /\ pc' = "title"
    /\ UNCHANGED <<chapters, title, author, ci, ei, need_no_indent>>
    /\ UNCHANGED <<text, lines, i, elements, para_lines, body_start, normVars>>

\* lines 68-74: the title page
TitlePage ==
    /\ pc = "title"
    /\ Truthy(title) \/ Truthy(author)
    /\ parts' = parts
                \o <<Fixed("title_open")>>
                \o (IF Truthy(title) THEN <<Part("book-title", Escape(title))>> ELSE <<>>)
                \o (IF Truthy(author) THEN <<Part("book-author", Escape(author))>> ELSE <<>>)
                \o <<Fixed("title_close")>>
    /\ ci' = 0
    /\ pc' = "chapters"
    /\ UNCHANGED <<chapters, title, author, ei, need_no_indent>>
    /\ UNCHANGED <<text, lines, i, elements, para_lines, body_start, normVars>>

\* line 68 false
NoTitlePage ==
    /\ pc = "title"
    /\ ~(Truthy(title) \/ Truthy(author))
    /\ ci' = 0
    /\ pc' = "chapters"
    /\ UNCHANGED <<chapters, title, author, parts, ei, need_no_indent>>
    /\ UNCHANGED <<text, lines, i, elements, para_lines, body_start, normVars>>

\* line 78 hoisted out of the loop: the flag is not reset for the chapter
ChapterOpenNoReset ==
    /\ pc = "chapters"
    /\ ci < Len(chapters)
    /\ parts' = Append(parts, Fixed("chapter_open"))
    /\ ei' = 0
    /\ pc' = "elements"
    /\ UNCHANGED <<chapters, title, author, ci, need_no_indent>>
    /\ UNCHANGED <<text, lines, i, elements, para_lines, body_start, normVars>>

\* lines 76-78: the next chapter's container is opened
ChapterOpen ==
    /\ pc = "chapters"
    /\ ci < Len(chapters)
    /\ parts' = Append(parts, Fixed("chapter_open"))
    /\ need_no_indent' = FALSE
    /\ ei' = 0
    /\ pc' = "elements"
    /\ UNCHANGED <<chapters, title, author, ci>>
    /\ UNCHANGED <<text, lines, i, elements, para_lines, body_start, normVars>>

\* lines 79-82
RenderHeading ==
    /\ pc = "elements"
    /\ ei < Len(Chapter(ci))
    /\ CurElem.kind = "heading"
    /\ parts' = Append(parts, Part("chapter-heading", Rendered(CurElem.text)))
    /\ need_no_indent' = TRUE
    /\ ei' = ei + 1
    /\ UNCHANGED <<pc, chapters, title, author, ci>>
    /\ UNCHANGED <<text, lines, i, elements, para_lines, body_start, normVars>>

\* lines 83-85
RenderSubtitle ==
    /\ pc = "elements"
    /\ ei < Len(Chapter(ci))
    /\ CurElem.kind = "subtitle"
    /\ parts' = Append(parts, Part("chapter-subtitle", Rendered(CurElem.text)))
    /\ need_no_indent' = TRUE
    /\ ei' = ei + 1
    /\ UNCHANGED <<pc, chapters, title, author, ci>>
    /\ UNCHANGED <<text, lines, i, elements, para_lines, body_start, normVars>>

\* lines 86-88
RenderSceneBreak ==
    /\ pc = "elements"
    /\ ei < Len(Chapter(ci))
    /\ CurElem.kind = "scene_break"
    /\ parts' = Append(parts, Fixed("scene-break"))
    /\ need_no_indent' = TRUE
    /\ ei' = ei + 1
    /\ UNCHANGED <<pc, chapters, title, author, ci>>
    /\ UNCHANGED <<text, lines, i, elements, para_lines, body_start, normVars>>

\* lines 89-93: a paragraph with the flag set
RenderParagraphNoIndent ==
    /\ pc = "elements"
    /\ ei < Len(Chapter(ci))
    /\ CurElem.kind = "paragraph"
    /\ need_no_indent
    /\ parts' = Append(parts, Part("p.no-indent", Rendered(CurElem.text)))
    /\ need_no_indent' = FALSE
    /\ ei' = ei + 1
    /\ UNCHANGED <<pc, chapters, title, author, ci>>
    /\ UNCHANGED <<text, lines, i, elements, para_lines, body_start, normVars>>

\* lines 89-90, 94-95: a paragraph with the flag clear
RenderParagraphIndent ==
    /\ pc = "elements"
    /\ ei < Len(Chapter(ci))
    /\ CurElem.kind = "paragraph"
    /\ ~need_no_indent
    /\ parts' = Append(parts, Part("p", Rendered(CurElem.text)))
    /\ ei' = ei + 1
    /\ UNCHANGED <<pc, chapters, title, author, ci, need_no_indent>>
    /\ UNCHANGED <<text, lines, i, elements, para_lines, body_start, normVars>>

\* line 96 forgotten: the container is left open
ChapterCloseMissing ==
    /\ pc = "elements"
    /\ ~(ei < Len(Chapter(ci)))
    /\ ci' = ci + 1
    /\ pc' = "chapters"
    /\ UNCHANGED <<chapters, title, author, parts, ei, need_no_indent>>
    /\ UNCHANGED <<text, lines, i, elements, para_lines, body_start, normVars>>

\* line 79 exhausted, line 96: the container is closed
ChapterClose ==
    /\ pc = "elements"
    /\ ~(ei < Len(Chapter(ci)))
    /\ parts' = Append(parts, Fixed("chapter_close"))
    /\ ci' = ci + 1
    /\ pc' = "chapters"
    /\ UNCHANGED <<chapters, title, author, ei, need_no_indent>>
    /\ UNCHANGED <<text, lines, i, elements, para_lines, body_start, normVars>>

\* line 76 exhausted, lines 98-99
DocClose ==
    /\ pc = "chapters"
    /\ ~(ci < Len(chapters))
    /\ parts' = Append(parts, Fixed("doc_close"))
    /\ pc' = "done"
    /\ UNCHANGED <<chapters, title, author, ci, ei, need_no_indent>>
    /\ UNCHANGED <<text, lines, i, elements, para_lines, body_start, normVars>>

NextBuild ==
    \/ Preamble
    \/ TitlePage
    \/ NoTitlePage
    \/ ChapterOpen
    \/ RenderHeading
    \/ RenderSubtitle
    \/ RenderSceneBreak
    \/ RenderParagraphNoIndent
    \/ RenderParagraphIndent
    \/ ChapterClose
    \/ DocClose

SpecBuild == InitBuild /\ [][NextBuild]_vars

(***************************************************************************)
(* Vocabulary of the properties, stated on the lines themselves.           *)
(***************************************************************************)
NLines == Len(lines)

IsBlankLine(l) == \A k \in 1..Len(l) : l[k] \in Whitespace

\* the line without its leading and trailing whitespace
Trimmed(l) ==
    IF IsBlankLine(l) THEN <<>>
    ELSE LET ink == {k \in 1..Len(l) : l[k] \notin Whitespace}
             a == CHOOSE k \in ink : \A m \in ink : k <= m
             b == CHOOSE k \in ink : \A m \in ink : k >= m IN
         SubSeq(l, a, b)

IsMarkLine(l) == Trimmed(l) = SCENE_MARK
IsTextLine(l) == ~IsBlankLine(l) /\ ~IsMarkLine(l)

NoEdgeWhitespace(t) ==
    t # <<>> => t[1] \notin Whitespace /\ t[Len(t)] \notin Whitespace

IsPara(e) == e.kind = "paragraph"
IsBreak(e) == e.kind = "scene_break"
IsBodyElem(e) == IsPara(e) \/ IsBreak(e)

Paragraphs(els) == SelectSeq(els, IsPara)
BodyElems(els) == SelectSeq(els, IsBodyElem)

\* line k (0-based, at or after b) is the last line of a maximal run of text lines
RunEnd(k) == IsTextLine(Line(k)) /\ (k = NLines - 1 \/ ~IsTextLine(Line(k + 1)))

\* first line of the maximal run of text lines, within the body from b, holding k
RunStart(b, k) ==
    CHOOSE s \in b..k :
        /\ \A m \in s..k : IsTextLine(Line(m))
        /\ s = b \/ ~IsTextLine(Line(s - 1))

\* the trimmed lines s..k joined by single spaces
RunText(s, k) == Join([m \in 1..(k - s + 1) |-> Trimmed(Line(s + m - 1))], <<" ">>)

\* what the body lines from b on stand for, in reading order
RECURSIVE BodyOf(_, _)
BodyOf(b, k) ==
    IF k >= NLines THEN <<>>
    ELSE (IF IsMarkLine(Line(k)) THEN <<Elem("scene_break", None)>>
          ELSE IF RunEnd(k) THEN <<Elem("paragraph", RunText(RunStart(b, k), k))>>
          ELSE <<>>) \o BodyOf(b, k + 1)

ExpectedBody(b) == BodyOf(b, b)

HasHeading == elements # <<>> /\ elements[1].kind = "heading"

(***************************************************************************)
(* Properties of parse_chapter.                                            *)
(***************************************************************************)

\* C1: in every element sequence a heading is the first element only and a
\* subtitle is the second element only, directly after a heading; so there is
\* at most one of each and none after a paragraph or a scene break.
C1_HeadingFirstSubtitleSecond ==
    \A k \in 1..Len(elements) :
        /\ elements[k].kind = "heading" => k = 1
        /\ elements[k].kind = "subtitle" => k = 2 /\ elements[1].kind = "heading"

\* a parse that ended with heading, subtitle and a heading-shaped body line
C1_Witness ==
    /\ pc = "done"
    /\ Len(elements) >= 3
    /\ elements[1].kind = "heading"
    /\ elements[2].kind = "subtitle"
    /\ \E k \in body_start..(NLines - 1) : ReMatchHeading(Trimmed(Line(k)))

NoEmptyParagraph ==
    \A k \in 1..Len(elements) :
        IsPara(elements[k]) => Trimmed(elements[k].text) # <<>>

\* every read of lines[i] is inside the list
ReadsInRange ==
    /\ i \in 0..Len(lines)
    /\ pc = "done" => i = Len(lines)

\* a flush of an empty accumulator leaves the element list as it was
EmptyFlushEmitsNothing ==
    (pc = "body" /\ para_lines = <<>>) =>
        \/ elements' = elements
        \/ /\ i < Len(lines)
           /\ IsMarkLine(Line(i))
           /\ elements' = Append(elements, Elem("scene_break", None))

\* the number of steps the parse can still take is at most this
StepsLeft ==
    LET rank == CASE pc = "read" -> 4
                  [] pc = "heading" -> 3
                  [] pc = "skip_blank" -> 2
                  [] pc = "body" -> 1
                  [] pc = "done" -> 0 IN
    rank * (Len(text) + 2) + (Len(lines) - i)

\* C2: for every input text the parse is never stuck before its end and each
\* step brings the end nearer, it never reads outside the line list, it never
\* holds a paragraph that is empty after trimming, and a flush of an empty
\* accumulator emits nothing.
C2_TotalNoEmptyParagraph ==
    /\ [](NoEmptyParagraph /\ ReadsInRange /\ (pc # "done" => ENABLED NextParse))
    /\ [][EmptyFlushEmitsNothing /\ StepsLeft' < StepsLeft /\ StepsLeft' >= 0]_vars

\* a finished parse of a text with two adjacent separator lines in its body
\* and a paragraph
C2_Witness ==
    /\ pc = "done"
    /\ \E k \in body_start..(NLines - 2) :
        /\ ~IsTextLine(Line(k))
        /\ ~IsTextLine(Line(k + 1))
    /\ Paragraphs(elements) # <<>>

\* C3: when the first line was emitted as a heading, the first non-blank line
\* after it (if any) is the subtitle, the rest of the elements come from the
\* lines after that one only, and with no such line the result is [Heading].
C3_SubtitleAfterBlanks ==
    (pc = "done" /\ HasHeading) =>
        LET nb == {k \in 1..(NLines - 1) : ~IsBlankLine(Line(k))} IN
        IF nb = {}
        THEN elements = <<Elem("heading", Line(0))>>
        ELSE LET j == CHOOSE k \in nb : \A m \in nb : k <= m IN
             /\ Len(elements) >= 2
             /\ elements[2] = Elem("subtitle", Line(j))
             /\ DropFirst(elements, 2) = ExpectedBody(j + 1)

\* blank lines were skipped and the line emitted as subtitle is a scene-break
\* marker, with body lines after it
C3_Witness ==
    /\ pc = "done"
    /\ HasHeading
    /\ Len(elements) >= 3
    /\ elements[2].kind = "subtitle"
    /\ IsMarkLine(elements[2].text)
    /\ body_start >= 3

\* C4: the paragraphs of the result are, in order, the maximal runs of text
\* lines of the body, each run's trimmed lines joined by single spaces, and no
\* paragraph text holds a newline.
C4_ParagraphPerRun ==
    pc = "done" =>
        /\ Paragraphs(elements) = Paragraphs(ExpectedBody(body_start))
        /\ Len(Paragraphs(elements)) =
               Cardinality({k \in body_start..(NLines - 1) : RunEnd(k)})
        /\ \A k \in 1..Len(elements) :
               IsPara(elements[k]) =>
                   \A m \in 1..Len(elements[k].text) : elements[k].text[m] # NL

\* two paragraphs, the first built from two lines
C4_Witness ==
    /\ pc = "done"
    /\ Len(Paragraphs(elements)) = 2
    /\ \E k \in body_start..(NLines - 2) :
        IsTextLine(Line(k)) /\ IsTextLine(Line(k + 1))

\* number of elements of els before position k that satisfy paragraph-hood
ParasBefore(els, k) == Len(Paragraphs(SubSeq(els, 1, k - 1)))

\* C5: the scene breaks of the result are as many as the marker lines of the
\* body, the k-th break stands after exactly the paragraphs of the runs that
\* end before the k-th marker line, and the text "* * *" alone gives
\* [SceneBreak].
C5_SceneBreakPerMarker ==
    pc = "done" =>
        LET body == BodyElems(elements)
            marks == {k \in body_start..(NLines - 1) : IsMarkLine(Line(k))}
            breaks == {k \in 1..Len(body) : IsBreak(body[k])} IN
        /\ Cardinality(breaks) = Cardinality(marks)
        /\ \A k \in breaks :
            \E m \in marks :
                /\ Cardinality({x \in breaks : x < k}) =
                       Cardinality({y \in marks : y < m})
                /\ ParasBefore(body, k) =
                       Cardinality({r \in body_start..(m - 1) : RunEnd(r)})
        /\ text = SCENE_MARK => elements = <<Elem("scene_break", None)>>

\* a paragraph, a scene break made from a marker line that follows text
\* directly, and a paragraph after it
C5_Witness ==
    /\ pc = "done"
    /\ \E k \in 1..(Len(elements) - 2) :
        /\ IsPara(elements[k])
        /\ IsBreak(elements[k + 1])
        /\ IsPara(elements[k + 2])
    /\ \E k \in (body_start + 1)..(NLines - 1) :
        IsMarkLine(Line(k)) /\ IsTextLine(Line(k - 1))

\* the line starts with CHAPTER, then one or more characters of set ws, then a digit
StartsWithChapter(l, ws) ==
    \E a \in (Len(CHAPTER) + 1)..Len(l) :
        /\ SubSeq(l, 1, Len(CHAPTER)) = CHAPTER
        /\ \A k \in (Len(CHAPTER) + 1)..a : l[k] \in ws
        /\ a + 1 <= Len(l)
        /\ l[a + 1] \in Digits

HeadingDecidedBy(ws) ==
    pc = "done" =>
        /\ HasHeading <=> StartsWithChapter(Line(0), ws)
        /\ HasHeading => elements[1] = Elem("heading", Line(0))
        /\ ~HasHeading =>
            /\ \A k \in 1..Len(elements) : IsBodyElem(elements[k])
            /\ body_start = 0
            /\ elements = ExpectedBody(0)

\* C9 as stated: the first line is a heading iff it starts with CHAPTER, one
\* or more space characters and one or more decimal digits.
C9_Original == HeadingDecidedBy({" "})

\* C9 amended: the first line is a heading iff it starts with CHAPTER, one or
\* more whitespace characters (space or tab) and one or more decimal digits;
\* otherwise no heading or subtitle is emitted and the first line is body text.
C9_HeadingIffPattern == HeadingDecidedBy(Whitespace)

\* a heading-shaped line after a leading blank line, parsed as body text
C9_Witness ==
    /\ pc = "done"
    /\ ~HasHeading
    /\ NLines >= 2
    /\ IsBlankLine(Line(0))
    /\ StartsWithChapter(Line(1), Whitespace)
    /\ Paragraphs(elements) # <<>>

\* C10: the text of every heading, subtitle and paragraph neither begins nor
\* ends with a whitespace character.
C10_NoEdgeWhitespace ==
    \A k \in 1..Len(elements) :
        elements[k].kind \in {"heading", "subtitle", "paragraph"} =>
            NoEdgeWhitespace(elements[k].text)

(***************************************************************************)
(* Properties of typographic_substitutions.                                *)
(***************************************************************************)
HasDoubleHyphen(t) == \E k \in 1..(Len(t) - 1) : t[k] = "-" /\ t[k + 1] = "-"

\* C6: a second application changes nothing, the result of the first holds no
\* two adjacent hyphens, and "well--known" becomes "well", em-dash, "known".
C6_Idempotent ==
    /\ pc \in {"norm_once", "norm_twice"} => ~HasDoubleHyphen(n_once)
    /\ pc = "norm_twice" => n_twice = n_once
    /\ (pc = "norm_twice" /\ n_text = WellKnown) =>
           n_once = <<"w", "e", "l", "l", EM, "k", "n", "o", "w", "n">>

\* both calls made on a text with a run of three hyphens or more
C6_Witness ==
    /\ pc = "norm_twice"
    /\ \E k \in 1..(Len(n_text) - 2) :
        n_text[k] = "-" /\ n_text[k + 1] = "-" /\ n_text[k + 2] = "-"
    /\ n_once # n_text

(***************************************************************************)
(* Properties of build_html.                                               *)
(***************************************************************************)
TaggedAt(tag) == {k \in 1..Len(parts) : parts[k].tag = tag}

\* the n-th smallest member of a set of indices
Nth(S, n) == CHOOSE k \in S : Cardinality({m \in S : m < k}) = n - 1

SetsFlag(e) == e.kind \in {"heading", "subtitle", "scene_break"}

\* part pt is the rendering of element e
Shows(pt, e) ==
    CASE e.kind = "heading" -> pt = Part("chapter-heading", Rendered(e.text))
      [] e.kind = "subtitle" -> pt = Part("chapter-subtitle", Rendered(e.text))
      [] e.kind = "scene_break" -> pt = Fixed("scene-break")
      [] e.kind = "paragraph" ->
            /\ pt.tag \in {"p", "p.no-indent"}
            /\ pt.text = Rendered(e.text)

\* C7: a paragraph is rendered no-indent iff the element directly before it in
\* its own chapter is a heading, a subtitle or a scene break, and indented
\* otherwise; a chapter's first paragraph is indented whatever the chapter
\* before it ended with.
C7_NoIndentIffAfterBreak ==
    pc = "done" =>
        \A c \in 1..Len(chapters) :
            \A k \in 1..Len(chapters[c]) :
                IsPara(chapters[c][k]) =>
                    LET pt == parts[Nth(TaggedAt("chapter_open"), c) + k] IN
                    IF k > 1 /\ SetsFlag(chapters[c][k - 1])
                    THEN pt.tag = "p.no-indent"
                    ELSE pt.tag = "p"

\* a chapter that starts with a paragraph after a chapter that ended with a
\* heading, a subtitle or a scene break
C7_Witness ==
    /\ pc = "done"
    /\ \E c \in 2..Len(chapters) :
        /\ chapters[c - 1] # <<>>
        /\ SetsFlag(chapters[c - 1][Len(chapters[c - 1])])
        /\ chapters[c] # <<>>
        /\ IsPara(chapters[c][1])

\* C8: one container per chapter, in input order, each holding exactly the
\* renderings of its chapter's elements in their order, the containers
\* following one another up to the closing structure; with no chapter and no
\* title or author the document is the preamble and the closing structure.
C8_ContainerPerChapter ==
    pc = "done" =>
        LET opens == TaggedAt("chapter_open")
            closes == TaggedAt("chapter_close")
            n == Len(chapters) IN
        /\ Cardinality(opens) = n
        /\ Cardinality(closes) = n
        /\ \A c \in 1..n :
            LET o == Nth(opens, c)
                cl == Nth(closes, c) IN
            /\ cl = o + Len(chapters[c]) + 1
            /\ \A k \in 1..Len(chapters[c]) : Shows(parts[o + k], chapters[c][k])
            /\ c < n => Nth(opens, c + 1) = cl + 1
            /\ c = n => cl = Len(parts) - 1
        /\ parts[Len(parts)] = Fixed("doc_close")
        /\ (n = 0 /\ ~Truthy(title) /\ ~Truthy(author)) =>
               parts = <<Fixed("preamble"), Fixed("css"), Fixed("head_close"),
                         Fixed("doc_close")>>

\* a finished document of two different non-empty chapters behind a title page
C8_Witness ==
    /\ pc = "done"
    /\ Len(chapters) = 2
    /\ chapters[1] # <<>>
    /\ chapters[2] # <<>>
    /\ chapters[1][1].kind # chapters[2][1].kind
    /\ TaggedAt("title_open") # {}

====
